---- MODULE Spec2Model ----
(***************************************************************************)
(* The two web front ends of the Codex CLI.                                *)
(*                                                                         *)
(*   multi-session server  (src/unnamed/part_001, runWebServer):           *)
(*     POST /api/run creates a Session and starts runAgentForSession in    *)
(*     the background; GET /api/run/:id/stream attaches a server-sent     *)
(*     event stream that replays the session's events and then receives   *)
(*     the live ones.                                                      *)
(*                                                                         *)
(*   single-flight server  (src/codex-cli/src/web/server.ts, runCodexWeb): *)
(*     POST /api/run runs the agent and answers with the buffered result;  *)
(*     a request that arrives while activeRun is set is answered 409.      *)
(*                                                                         *)
(* Both run on one Node.js event loop: every handler, callback and         *)
(* promise continuation is one atomic action.  The variable mode fixes     *)
(* which of the two servers the process runs.                              *)
(***************************************************************************)
EXTENDS Integers, Sequences, FiniteSets, TLC

VARIABLES
    mode,            \* "multi" (runWebServer) or "single" (runCodexWeb)
    sessions,        \* part_001:332  the Map's keys: ids currently registered
    session,         \* the Session objects ever created, by id (closures keep them alive)
    run,             \* position of runAgentForSession(session) for each id
    conns,           \* the stream requests handled so far (req/res pairs), in arrival order
    posts,           \* number of POST /api/run requests handled so far
    lastPost,        \* the latest POST /api/run request and the response it got
    activeRun,       \* server.ts:61  "null" or "promise"
    handler,         \* position of the admitted POST handler of the single-flight server
    runPromise,      \* server.ts:107 state of runPromise: [state, reason]
    microtasks,      \* promise reactions queued and not yet run (single-flight server)
    results,         \* server.ts:81
    loadingStates,   \* server.ts:82
    lastResponseId,  \* server.ts:83
    response,        \* the admitted caller's response, or NoResponse
    executors,       \* number of agent.run invocations that have not settled
    unhandled,       \* rejected promises that got no rejection handler
    process,         \* "up" or "crashed" (unhandled rejection under --unhandled-rejections=throw)
    server,          \* the listening socket: "binding", "listening", "closing", "closed", "failed"
    startup,         \* the promise runWebServer/runCodexWeb returned: "pending", "resolved", "rejected"
    signalled,       \* SIGINT or SIGTERM has been delivered
    now,             \* the value Date.now() returns (single-flight server)
    startedAt,       \* server.ts:116
    fired,           \* the onItem/onLoading calls the agent of the admitted run has made, in order
    steps            \* events the loop of the multi-session server has handled

vars == <<mode, sessions, session, run, conns, posts, lastPost, activeRun, handler,
          runPromise, microtasks, results, loadingStates, lastResponseId,
          response, executors, unhandled, process, server, startup, signalled,
          now, startedAt, fired, steps>>

lifeVars == <<server, startup, signalled>>

multiVars == <<sessions, session, run, conns>>

singleVars == <<activeRun, handler, runPromise, microtasks, results,
                loadingStates, lastResponseId, response, executors,
                unhandled, process, now, startedAt, fired>>

-----------------------------------------------------------------------------
(* Bounds of the model *)

MaxPosts == 2         \* POST /api/run requests in one behaviour
MaxCallbacks == 2     \* onItem/onLoading callbacks fired in one behaviour
MaxConns == 2         \* stream requests in one behaviour
MaxKeepAlive == 1     \* keep-alive ticks in one behaviour
MaxSteps == 7         \* steps of the multi-session server in one behaviour
MaxDeaths == 1        \* connections that die before their close event, in one behaviour
MaxConfirmations == 1 \* getCommandConfirmation calls in one behaviour
MaxClock == 1         \* milliseconds the clock advances in one behaviour

-----------------------------------------------------------------------------
(* Values *)

Undefined == <<>>

\* Strings are sequences of characters, so that trim() is computed.
Blank == " "

\* String.prototype.trim
RECURSIVE TrimStart(_)
TrimStart(s) ==
    IF s # <<>> /\ Head(s) = Blank THEN TrimStart(Tail(s)) ELSE s

RECURSIVE TrimEnd(_)
TrimEnd(s) ==
    IF s # <<>> /\ s[Len(s)] = Blank THEN TrimEnd(SubSeq(s, 1, Len(s) - 1)) ELSE s

trim(s) == TrimEnd(TrimStart(s))

\* Request bodies after express.json(): body absent, prompt of another type,
\* and prompt strings.
Bodies ==
    { [body |-> "undefined", kind |-> "undefined", text |-> <<>>],
      [body |-> "object",    kind |-> "number",    text |-> <<>>],
      [body |-> "object",    kind |-> "string",    text |-> <<Blank, Blank>>],
      [body |-> "object",    kind |-> "string",    text |-> <<Blank, "a", Blank>>] }

\* A prompt that is not trimmed.
promptTextUntrimmed(b) ==
    IF b.body = "object" /\ b.kind = "string" THEN b.text ELSE <<>>

\* typeof prompt === "string" ? prompt.trim() : ""
promptText(b) ==
    IF b.body = "object" /\ b.kind = "string" THEN trim(b.text) ELSE <<>>

\* Values a promise can reject with: Error objects and other values.
Rejections ==
    { [isError |-> TRUE,  text |-> "disk full"],
      [isError |-> FALSE, text |-> "disk full"] }

\* String(error) of a value that is not an Error: a string converts to itself.
String(r) == r.text

Items == {"i1"}
Loadings == {"true"}
ResponseIds == {"r1"}

\* Items and loading payloads of the run the single-flight server buffers.
BufferedItems == {"i1", "i2"}
BufferedLoadings == {"true", "false"}

-----------------------------------------------------------------------------
(* Multi-session server: events, frames and the session registry *)

ItemEvent(item) == [type |-> "item", data |-> <<"text", item>>]
\* A loading transition reported as an item.
statusAsItem(loading) == [type |-> "item", data |-> <<"text", loading>>]

StatusEvent(loading) == [type |-> "status", data |-> <<"loading", loading>>]
CompleteEvent == [type |-> "complete", data |-> Undefined]
ErrorEvent(message) == [type |-> "error", data |-> <<"message", message>>]

\* JSON.stringify(event.data): the serialised text of the payload.
JSONstringify(data) == <<"json">> \o data

KeepAliveChunk == <<": keep-alive">>

\* writeEvent(res, event): the chunks res.write receives, appended to what the
\* response has been sent so far.
writeEvent(sent, event) ==
    sent \o << <<"event", event.type>> >>
         \o (IF event.data # Undefined
                THEN << <<"data">> \o JSONstringify(event.data) >>
                ELSE <<>>)
         \o << <<"nl">> >>

\* A replay that ends with a keep-alive frame.
RECURSIVE replayKeepAlive(_, _)
replayKeepAlive(sent, events) ==
    IF events = <<>> THEN Append(sent, KeepAliveChunk)
    ELSE replayKeepAlive(writeEvent(sent, Head(events)), Tail(events))

\* A replay that starts one event late.
RECURSIVE replaySkipsFirst(_, _)
replaySkipsFirst(sent, events) ==
    IF Len(events) <= 1 THEN sent
    ELSE replaySkipsFirst(writeEvent(sent, events[2]), Tail(events))

\* for (const event of session.events) writeEvent(res, event)
RECURSIVE replay(_, _)
replay(sent, events) ==
    IF events = <<>> THEN sent
    ELSE replay(writeEvent(sent, Head(events)), Tail(events))

\* An emit that puts the event at the head of the log.
emitSessionPrepends(s, event) == [s EXCEPT !.events = <<event>> \o @]

\* emit(session, event), its effect on the Session object ...
emitSession(s, event) == [s EXCEPT !.events = Append(@, event)]

\* res.write(chunk), called once or more in one step, `sent` being all the
\* chunks res.write has been given: a socket that is alive takes them; on a
\* destroyed socket res.write returns false, drops the chunk and does not throw.
written(conn, sent) ==
    [conn EXCEPT !.sent = sent,
                 !.delivered = IF conn.alive THEN Len(sent) ELSE @]

\* An emit whose loop over the listeners is ended by the first write to a
\* destroyed socket, as by an exception (a Set iterates in insertion order).
emitListenersThrows(cs, listeners, event) ==
    [c \in DOMAIN cs |->
        IF c \in listeners /\ \A d \in listeners : d < c => cs[d].alive
           THEN written(cs[c], writeEvent(cs[c].sent, event))
           ELSE cs[c]]

\* An emit that writes to every open stream of the server, whatever session
\* the stream belongs to.
emitListenersAll(cs, listeners, event) ==
    [c \in DOMAIN cs |->
        IF cs[c].state = "streaming"
           THEN written(cs[c], writeEvent(cs[c].sent, event))
           ELSE cs[c]]

\* ... and on the responses of the listeners.
emitListeners(cs, listeners, event) ==
    [c \in DOMAIN cs |->
        IF c \in listeners
           THEN written(cs[c], writeEvent(cs[c].sent, event))
           ELSE cs[c]]

\* A session that is created with its completed flag set.
newSessionCompleted == [events |-> <<>>, listeners |-> {}, completed |-> TRUE]

\* createSession(): the new Session object (its id is its index in session).
newSession == [events |-> <<>>, listeners |-> {}, completed |-> FALSE]

\* A cleanup that removes the session whatever its state.
cleanupEager(reg, id, s) == reg \ {id}

\* A cleanup that removes nothing.
cleanupNever(reg, id, s) == reg

\* A cleanup that forgets the completed flag.
cleanupIgnoresCompleted(reg, id, s) ==
    IF s.listeners = {} THEN reg \ {id} ELSE reg

\* A cleanup that forgets the listeners.
cleanupIgnoresListeners(reg, id, s) ==
    IF s.completed THEN reg \ {id} ELSE reg

\* cleanupSessionIfIdle(session): the registry afterwards.
cleanupSessionIfIdle(reg, id, s) ==
    IF s.completed /\ s.listeners = {} THEN reg \ {id} ELSE reg

\* error instanceof Error ? error.message : "Unexpected error"
catchMessage(error) ==
    IF error.isError THEN error.text ELSE "Unexpected error"

\* A finally block that leaves the flag as it was.
finallyKeepsFlag(s) == s

\* The finally block of runAgentForSession.
finallyBlock(s) == [s EXCEPT !.completed = TRUE]

Ids == 1..Len(session)

RECURSIVE SumOver(_, _)
SumOver(f, S) ==
    IF S = {} THEN 0
    ELSE LET x == CHOOSE y \in S : TRUE IN f[x] + SumOver(f, S \ {x})

\* Callbacks fired so far: the events that are neither "complete" nor "error".
CallbacksFired ==
    SumOver([id \in Ids |->
               Len(SelectSeq(session[id].events,
                             LAMBDA e : e.type \in {"item", "status"}))], Ids)

\* Keep-alive ticks so far.
TicksFired == SumOver([c \in DOMAIN conns |-> conns[c].ticks], DOMAIN conns)

-----------------------------------------------------------------------------
(* Multi-session server: handlers *)

NoReason == [isError |-> FALSE, text |-> ""]

\* runAgentForSession(session, ...) suspended at its first await.
started ==
    [pc |-> "createInputItem", awaited |-> "createInputItem",
     outcome |-> "pending", reason |-> NoReason, calls |-> <<>>,
     invoked |-> 0, terminated |-> 0, trail |-> <<>>, reviews |-> <<>>]

\* A run that starts over after a rejection.
retried(r, outcome, reason) ==
    IF outcome = "rejected"
       THEN [r EXCEPT !.pc = "createInputItem", !.awaited = "createInputItem"]
       ELSE [r EXCEPT !.pc = "returned", !.outcome = outcome, !.reason = reason]

\* runAgentForSession(session, ...) after its finally block; awaited, outcome
\* and reason record which promise of the try block settled last, and how,
\* calls the callbacks the agent has called, invoked the calls of agent.run,
\* terminated the calls of agent.terminate, trail the statements of the end
\* of the function in the order they ran, reviews the answers given to
\* getCommandConfirmation.
returned(r, outcome, reason) ==
    [r EXCEPT !.pc = "returned", !.outcome = outcome, !.reason = reason]

\* A handler or callback of the multi-session server runs.
MultiStep == mode = "multi" /\ steps < MaxSteps /\ steps' = steps + 1

\* POST /api/run
PostRun(b) ==
    /\ MultiStep
    /\ server = "listening"
    /\ posts < MaxPosts
    /\ posts' = posts + 1
    /\ LET prompt == promptText(b) IN
       IF prompt = <<>>
          THEN /\ lastPost' = [body |-> b, status |-> 400, sessionId |-> 0]
               /\ UNCHANGED multiVars
          ELSE /\ LET id == Len(session) + 1 IN
                  /\ session' = Append(session, newSession)
                  /\ sessions' = sessions \cup {id}
                  /\ lastPost' = [body |-> b, status |-> 200, sessionId |-> id]
                  /\ run' = Append(run, started)
               /\ UNCHANGED conns
    /\ UNCHANGED <<lifeVars, mode, singleVars>>

\* await createInputItem(prompt, []) resolves; agent.run starts.
InputResolved(id) ==
    /\ MultiStep
    /\ id \in Ids
    /\ run[id].pc = "createInputItem"
    /\ run' = [run EXCEPT ![id].pc = "agent.run", ![id].awaited = "agent.run",
                          ![id].invoked = @ + 1]
    /\ UNCHANGED <<lifeVars, mode, sessions, session, conns, posts, lastPost, singleVars>>

\* The end of runAgentForSession with the emit of the try block followed by
\* the emit of the catch block.
emitsTwice ==
    <<"emit", "emit", "agent.terminate", "completed", "cleanupSessionIfIdle">>

\* The end of runAgentForSession with the reclaim before the emit.
reclaimsFirst ==
    <<"cleanupSessionIfIdle", "emit", "agent.terminate", "completed">>

\* The statements of the end of runAgentForSession in program order: the emit
\* of the try block (line 398) or of the catch block (401), then the three
\* statements of the finally block (404-406).
terminalStatements ==
    <<"emit", "agent.terminate", "completed", "cleanupSessionIfIdle">>

\* One of these statements, run on the frame f of the session, the registry,
\* the responses and the run.
exec(f, id, event, stmt) ==
    LET g == [f EXCEPT !.r.trail = Append(@, stmt)] IN
    CASE stmt = "emit" ->
            [g EXCEPT !.s = emitSession(@, event),
                      !.cs = emitListeners(@, f.s.listeners, event)]
      [] stmt = "agent.terminate" ->
            [g EXCEPT !.r.terminated = @ + 1]
      [] stmt = "completed" ->
            [g EXCEPT !.s = finallyBlock(@)]
      [] stmt = "cleanupSessionIfIdle" ->
            [g EXCEPT !.reg = cleanupSessionIfIdle(@, id, f.s)]

RECURSIVE execAll(_, _, _, _)
execAll(f, id, event, stmts) ==
    IF stmts = <<>> THEN f
    ELSE execAll(exec(f, id, event, Head(stmts)), id, event, Tail(stmts))

\* The end of runAgentForSession for session id, with the event it emits.
terminalStep(id, event) ==
    execAll([s |-> session[id], reg |-> sessions, cs |-> conns, r |-> run[id]],
            id, event, terminalStatements)

\* The catch and finally blocks, after the try block threw `error`.
Failed(id, error) ==
    LET f == terminalStep(id, ErrorEvent(catchMessage(error)))
    IN /\ session' = [session EXCEPT ![id] = f.s]
       /\ conns' = f.cs
       /\ sessions' = f.reg
       /\ run' = [run EXCEPT ![id] = returned(f.r, "rejected", error)]

\* await createInputItem(prompt, []) rejects.
InputRejected(id, error) ==
    /\ MultiStep
    /\ id \in Ids
    /\ run[id].pc = "createInputItem"
    /\ Failed(id, error)
    /\ UNCHANGED <<lifeVars, mode, posts, lastPost, singleVars>>

\* AgentLoop calls the callbacks it was given while its run() is pending, and
\* at no other time: the Run Executor produces its items and loading
\* transitions and then finishes.
agentRunPending(r) == r.pc = "agent.run"

\* The agent calls a callback while agent.run is pending.
Callback(id, call, event) ==
    /\ MultiStep
    /\ id \in Ids
    /\ agentRunPending(run[id])
    /\ CallbacksFired < MaxCallbacks
    /\ session' = [session EXCEPT ![id] = emitSession(@, event)]
    /\ conns' = emitListeners(conns, session[id].listeners, event)
    /\ run' = [run EXCEPT ![id].calls = Append(@, call)]
    /\ UNCHANGED <<lifeVars, mode, sessions, posts, lastPost, singleVars>>

OnItem(id, item) == Callback(id, <<"onItem", item>>, ItemEvent(item))

OnLoading(id, loading) ==
    Callback(id, <<"onLoading", loading>>, StatusEvent(loading))

\* Answers given to getCommandConfirmation so far.
ConfirmationsAsked ==
    SumOver([id \in Ids |-> Len(run[id].reviews)], Ids)

\* getCommandConfirmation: async () => ({ review: ReviewDecision.YES })
GetCommandConfirmation(id) ==
    /\ MultiStep
    /\ id \in Ids
    /\ agentRunPending(run[id])
    /\ ConfirmationsAsked < MaxConfirmations
    /\ run' = [run EXCEPT ![id].reviews = Append(@, "ReviewDecision.YES")]
    /\ UNCHANGED <<lifeVars, mode, sessions, session, conns, posts, lastPost,
                   singleVars>>

\* await agent.run([inputItem]) resolves.
RunResolved(id) ==
    /\ MultiStep
    /\ id \in Ids
    /\ run[id].pc = "agent.run"
    /\ LET f == terminalStep(id, CompleteEvent) IN
       /\ session' = [session EXCEPT ![id] = f.s]
       /\ conns' = f.cs
       /\ sessions' = f.reg
       /\ run' = [run EXCEPT ![id] = returned(f.r, "fulfilled", NoReason)]
    /\ UNCHANGED <<lifeVars, mode, posts, lastPost, singleVars>>

\* await agent.run([inputItem]) rejects.
RunRejected(id, error) ==
    /\ MultiStep
    /\ id \in Ids
    /\ run[id].pc = "agent.run"
    /\ Failed(id, error)
    /\ UNCHANGED <<lifeVars, mode, posts, lastPost, singleVars>>

\* A 404 branch that forgets to return before the keep-alive timer is set.
notFoundFallsThrough(id) ==
    [id |-> id, state |-> "notfound", keepAlive |-> TRUE, ticks |-> 0,
     replayed |-> 0, sent |-> <<>>, alive |-> TRUE, delivered |-> 0]

\* The stream handler's 404 branch.
notFound(id) ==
    [id |-> id, state |-> "notfound", keepAlive |-> FALSE, ticks |-> 0,
     replayed |-> 0, sent |-> <<>>, alive |-> TRUE, delivered |-> 0]

\* The stream handler's response after listeners.add(res) and the replay.
attached(id, events) ==
    [id |-> id, state |-> "streaming", keepAlive |-> TRUE, ticks |-> 0,
     replayed |-> Len(events), sent |-> replay(<<>>, events), alive |-> TRUE,
     delivered |-> Len(replay(<<>>, events))]

\* GET /api/run/:id/stream
GetStream(id) ==
    /\ MultiStep
    /\ server = "listening"
    /\ Len(conns) < MaxConns
    /\ LET c == Len(conns) + 1 IN
       IF id \notin sessions
          THEN /\ conns' = Append(conns, notFound(id))
               /\ UNCHANGED session
          ELSE /\ session' = [session EXCEPT ![id].listeners = @ \cup {c}]
               /\ conns' = Append(conns, attached(id, session[id].events))
    /\ UNCHANGED <<lifeVars, mode, sessions, run, posts, lastPost, singleVars>>

\* The setInterval callback of a stream.
KeepAlive(c) ==
    /\ MultiStep
    /\ c \in DOMAIN conns
    /\ conns[c].keepAlive
    /\ TicksFired < MaxKeepAlive
    /\ conns' = [conns EXCEPT
                   ![c] = [written(@, Append(@.sent, KeepAliveChunk))
                              EXCEPT !.ticks = @ + 1]]
    /\ UNCHANGED <<lifeVars, mode, sessions, session, run, posts, lastPost, singleVars>>

\* A close handler that leaves the response among the listeners.
detachKeeps(s, c) == s

\* A detach that builds the session object anew, as createSession does, from
\* the log and the remaining listeners.
detachResets(s, c) ==
    [events |-> s.events, listeners |-> s.listeners \ {c}, completed |-> FALSE]

\* A removal by position, as splice(indexOf(res), 1) does on an array: for a
\* res that is not there it removes the last element.
detachSplices(s, c) ==
    IF c \in s.listeners \/ s.listeners = {}
       THEN [s EXCEPT !.listeners = @ \ {c}]
       ELSE [s EXCEPT !.listeners =
                @ \ {CHOOSE d \in @ : \A e \in @ : e <= d}]

\* Connections destroyed so far whose close event has not been handled.
Dead == {c \in DOMAIN conns : conns[c].state = "streaming" /\ ~conns[c].alive}

\* The connection of a stream is destroyed (the peer went away); the close
\* event of its request is still to be handled.
ConnDies(c) ==
    /\ MultiStep
    /\ c \in DOMAIN conns
    /\ conns[c].state = "streaming"
    /\ conns[c].alive
    /\ Cardinality(Dead) < MaxDeaths
    /\ conns' = [conns EXCEPT ![c].alive = FALSE]
    /\ UNCHANGED <<lifeVars, mode, sessions, session, run, posts, lastPost, singleVars>>

\* The Session object after listeners.delete(res).
detach(s, c) == [s EXCEPT !.listeners = @ \ {c}]

\* A close handler that leaves the interval running.
closedKeepsTimer(conn) == [conn EXCEPT !.state = "closed", !.alive = FALSE]

\* The stream after its close handler: clearInterval(keepAlive).
closed(conn) ==
    [conn EXCEPT !.state = "closed", !.keepAlive = FALSE, !.alive = FALSE]

\* req.on("close", ...).  The close event of a destroyed connection is
\* handled whatever the number of steps taken.
OnClose(c) ==
    /\ mode = "multi"
    /\ c \in DOMAIN conns
    /\ conns[c].state = "streaming"
    /\ steps < MaxSteps \/ ~conns[c].alive
    /\ steps' = IF steps < MaxSteps THEN steps + 1 ELSE steps
    /\ LET id == conns[c].id
           s == detach(session[id], c)
       IN /\ conns' = [conns EXCEPT ![c] = closed(@)]
          /\ session' = [session EXCEPT ![id] = s]
          /\ sessions' = cleanupSessionIfIdle(sessions, id, s)
    /\ UNCHANGED <<lifeVars, mode, run, posts, lastPost, singleVars>>

----------------------------------------------------------------------------
(* Single-flight server *)

NoResponse ==
    [status |-> 0, fields |-> {}, error |-> "", items |-> <<>>,
     loading |-> <<>>, lastResponseId |-> Undefined, durationMs |-> 0]

PendingPromise == [state |-> "pending", reason |-> NoReason]

\* Request handlers, callbacks and timers are macrotasks: one starts only when
\* the promise reactions of the previous one have all run.
Idle == mode = "single" /\ process = "up" /\ microtasks = <<>>

\* The handler resumes before the .finally callback has run.
reactionsAwaitFirst(state) ==
    IF state = "rejected" THEN <<"await", "finally", "unhandledRejection">>
                          ELSE <<"await", "finally">>

\* runPromise settles: its reactions are queued in the order they were
\* registered, .finally(...) at line 112 before the await at line 118; a
\* rejection also leaves the promise .finally returned rejected, with no handler.
reactions(state) ==
    IF state = "rejected" THEN <<"finally", "await", "unhandledRejection">>
                          ELSE <<"finally", "await">>

\* An admission check that never sees a run.
neverBusy == FALSE

\* if (activeRun)
busy == activeRun # "null"

\* POST /api/run
Post(b) ==
    /\ Idle
    /\ server = "listening"
    /\ posts < MaxPosts
    /\ posts' = posts + 1
    /\ IF busy
          THEN /\ lastPost' = [body |-> b, status |-> 409, sessionId |-> 0]
               /\ UNCHANGED singleVars
          ELSE IF promptText(b) = <<>>
          THEN /\ lastPost' = [body |-> b, status |-> 400, sessionId |-> 0]
               /\ UNCHANGED singleVars
          ELSE /\ lastPost' = [body |-> b, status |-> 0, sessionId |-> 0]
               /\ results' = <<>>
               /\ loadingStates' = <<>>
               /\ lastResponseId' = Undefined
               /\ runPromise' = PendingPromise
               /\ handler' = "createInputItem"
               /\ activeRun' = "promise"
               /\ response' = NoResponse
               /\ startedAt' = now
               /\ fired' = <<>>
               /\ UNCHANGED <<microtasks, executors, unhandled, process, now>>
    /\ UNCHANGED <<lifeVars, mode, steps, multiVars>>

\* await createInputItem(promptText, imagePaths) resolves; agent.run starts.
CreateInputItemResolved ==
    /\ Idle
    /\ handler = "createInputItem"
    /\ handler' = "agent.run"
    /\ executors' = executors + 1
    /\ UNCHANGED <<now, startedAt, fired>>
    /\ UNCHANGED <<lifeVars, mode, steps, multiVars, posts, lastPost, activeRun, runPromise,
                   microtasks, results, loadingStates, lastResponseId,
                   response, unhandled, process>>

\* await createInputItem(promptText, imagePaths) rejects.
CreateInputItemRejected(error) ==
    /\ Idle
    /\ handler = "createInputItem"
    /\ handler' = "settled"
    /\ runPromise' = [state |-> "rejected", reason |-> error]
    /\ microtasks' = reactions("rejected")
    /\ UNCHANGED <<now, startedAt, fired>>
    /\ UNCHANGED <<lifeVars, mode, steps, multiVars, posts, lastPost, activeRun, results,
                   loadingStates, lastResponseId, response, executors,
                   unhandled, process>>

\* An insertion at the front of the array.
unshift(array, x) == <<x>> \o array

\* Array.prototype.push
push(array, x) == Append(array, x)

\* onItem: results.push(item)
PushItem(item) ==
    /\ Idle
    /\ handler = "agent.run"
    /\ Len(results) + Len(loadingStates) < MaxCallbacks
    /\ results' = push(results, item)
    /\ fired' = Append(fired, <<"onItem", item>>)
    /\ UNCHANGED <<now, startedAt>>
    /\ UNCHANGED <<lifeVars, mode, steps, multiVars, posts, lastPost, activeRun, handler,
                   runPromise, microtasks, loadingStates, lastResponseId,
                   response, executors, unhandled, process>>

\* onLoading: loadingStates.push({ type: "loading", data: payload })
PushLoading(payload) ==
    /\ Idle
    /\ handler = "agent.run"
    /\ Len(results) + Len(loadingStates) < MaxCallbacks
    /\ loadingStates' = push(loadingStates, <<"loading", payload>>)
    /\ fired' = Append(fired, <<"onLoading", payload>>)
    /\ UNCHANGED <<now, startedAt>>
    /\ UNCHANGED <<lifeVars, mode, steps, multiVars, posts, lastPost, activeRun, handler,
                   runPromise, microtasks, results, lastResponseId,
                   response, executors, unhandled, process>>

\* onLastResponseId: lastResponseId = id
SetLastResponseId(id) ==
    /\ Idle
    /\ handler = "agent.run"
    /\ lastResponseId' = <<id>>
    /\ UNCHANGED <<now, startedAt, fired>>
    /\ UNCHANGED <<lifeVars, mode, steps, multiVars, posts, lastPost, activeRun, handler,
                   runPromise, microtasks, results, loadingStates,
                   response, executors, unhandled, process>>

\* await agent.run([inputItem]) settles, and with it runPromise.
Settle(state, reason) ==
    /\ Idle
    /\ handler = "agent.run"
    /\ handler' = "settled"
    /\ executors' = executors - 1
    /\ runPromise' = [state |-> state, reason |-> reason]
    /\ microtasks' = reactions(state)
    /\ UNCHANGED <<now, startedAt, fired>>
    /\ UNCHANGED <<lifeVars, mode, steps, multiVars, posts, lastPost, activeRun, results,
                   loadingStates, lastResponseId, response, unhandled, process>>

AgentRunResolved ==
    /\ runPromise.state = "pending"
    /\ Settle("fulfilled", NoReason)

AgentRunRejected(error) ==
    /\ runPromise.state = "pending"
    /\ Settle("rejected", error)

\* The .finally callback: activeRun = null
FinallyCallback ==
    /\ mode = "single"
    /\ process = "up"
    /\ microtasks # <<>>
    /\ Head(microtasks) = "finally"
    /\ microtasks' = Tail(microtasks)
    /\ activeRun' = "null"
    /\ UNCHANGED <<now, startedAt, fired>>
    /\ UNCHANGED <<lifeVars, mode, steps, multiVars, posts, lastPost, handler, runPromise,
                   results, loadingStates, lastResponseId, response,
                   executors, unhandled, process>>

\* res.json({...}) of the try block.
successPayload ==
    [status |-> 200,
     fields |-> {"items", "loading", "lastResponseId", "durationMs",
                 "sandbox", "fullStdout"},
     error |-> "", items |-> results, loading |-> loadingStates,
     lastResponseId |-> lastResponseId, durationMs |-> now - startedAt]

\* res.status(500).json({...}) of the catch block.
failurePayload(error) ==
    [status |-> 500,
     fields |-> {"error", "items", "durationMs", "sandbox"},
     error |-> IF error.isError THEN error.text ELSE String(error),
     items |-> results, loading |-> <<>>, lastResponseId |-> Undefined,
     durationMs |-> now - startedAt]

\* The handler resumes after await runPromise and answers.
AwaitResumes ==
    /\ mode = "single"
    /\ process = "up"
    /\ microtasks # <<>>
    /\ Head(microtasks) = "await"
    /\ microtasks' = Tail(microtasks)
    /\ response' = IF runPromise.state = "fulfilled"
                      THEN successPayload
                      ELSE failurePayload(runPromise.reason)
    /\ handler' = "returned"
    /\ UNCHANGED <<now, startedAt, fired>>
    /\ UNCHANGED <<lifeVars, mode, steps, multiVars, posts, lastPost, activeRun, runPromise,
                   results, loadingStates, lastResponseId, executors,
                   unhandled, process>>

\* The rejected promise that .finally returned has no handler when the
\* microtask queue has drained.  Node reports it: by default (since Node 15)
\* as an uncaught exception that ends the process, ...
UnhandledRejectionThrows ==
    /\ mode = "single"
    /\ process = "up"
    /\ microtasks # <<>>
    /\ Head(microtasks) = "unhandledRejection"
    /\ microtasks' = Tail(microtasks)
    /\ unhandled' = unhandled + 1
    /\ process' = "crashed"
    /\ UNCHANGED <<now, startedAt, fired>>
    /\ UNCHANGED <<lifeVars, mode, steps, multiVars, posts, lastPost, activeRun, handler,
                   runPromise, results, loadingStates, lastResponseId,
                   response, executors>>

\* ... or, under --unhandled-rejections=warn or an older Node, as a warning.
UnhandledRejectionWarns ==
    /\ mode = "single"
    /\ process = "up"
    /\ microtasks # <<>>
    /\ Head(microtasks) = "unhandledRejection"
    /\ microtasks' = Tail(microtasks)
    /\ unhandled' = unhandled + 1
    /\ UNCHANGED <<now, startedAt, fired>>
    /\ UNCHANGED <<lifeVars, mode, steps, multiVars, posts, lastPost, activeRun, handler,
                   runPromise, results, loadingStates, lastResponseId,
                   response, executors, process>>

\* Time passes between two tasks of a run: Date.now() returns a later value.
\* (The time that passes while no run is pending enters no duration.)
ClockAdvances ==
    /\ Idle
    /\ handler \in {"createInputItem", "agent.run"}
    /\ now < MaxClock
    /\ now' = now + 1
    /\ UNCHANGED <<lifeVars, mode, steps, multiVars, posts, lastPost, activeRun, handler,
                   runPromise, microtasks, results, loadingStates,
                   lastResponseId, response, executors, unhandled, process,
                   startedAt, fired>>

-----------------------------------------------------------------------------
(* Both servers: the listening socket and the signals *)

\* process.once("SIGINT", shutdown) and process.once("SIGTERM", shutdown)
\* have run.  runWebServer registers them inside the executor of the promise
\* it awaits, before the socket is bound.  runCodexWeb registers them after
\* `await new Promise(...)` (server.ts:140-167), a promise whose executor
\* never calls resolve: the statements after it never run.
shutdownRegistered == mode = "multi"

\* server.on("listening", ...): the socket is bound, connections are accepted.
Listening ==
    /\ server = "binding"
    /\ server' = "listening"
    /\ UNCHANGED <<mode, steps, multiVars, singleVars, posts, lastPost,
                   startup, signalled>>

\* server.on("error", (error) => reject(error)): the bind failed.
BindFails ==
    /\ server = "binding"
    /\ server' = "failed"
    /\ startup' = "rejected"
    /\ UNCHANGED <<mode, steps, multiVars, singleVars, posts, lastPost,
                   signalled>>

\* The first SIGINT or SIGTERM.  With the handler registered shutdown runs:
\* server.close(...) stops the socket from accepting.  Without a handler the
\* signal has its default disposition: the process is terminated.
Signal ==
    /\ server = "listening"
    /\ process = "up"
    /\ ~signalled
    /\ signalled' = TRUE
    /\ IF shutdownRegistered
          THEN /\ steps < MaxSteps
               /\ steps' = steps + 1
               /\ server' = "closing"
               /\ UNCHANGED <<singleVars>>
          ELSE /\ process' = "killed"
               /\ UNCHANGED <<server, steps, activeRun, handler, runPromise,
                              microtasks, results, loadingStates,
                              lastResponseId, response, executors, unhandled,
                              now, startedAt, fired>>
    /\ UNCHANGED <<mode, multiVars, posts, lastPost, startup>>

\* The connections of the streams that are still open.
OpenConnections ==
    {c \in DOMAIN conns : conns[c].state = "streaming" /\ conns[c].alive}

\* The callback of server.close: the server emits "close" when it has stopped
\* listening and every connection has ended.  runWebServer resolves its
\* promise, runCodexWeb calls process.exit(0).
ServerCloses ==
    /\ server = "closing"
    /\ process = "up"
    /\ OpenConnections = {}
    /\ server' = "closed"
    /\ IF mode = "multi"
          THEN startup' = "resolved" /\ UNCHANGED singleVars
          ELSE /\ process' = "exited"
               /\ UNCHANGED <<startup, activeRun, handler, runPromise,
                              microtasks, results, loadingStates,
                              lastResponseId, response, executors, unhandled,
                              now, startedAt, fired>>
    /\ UNCHANGED <<mode, steps, multiVars, posts, lastPost, signalled>>

-----------------------------------------------------------------------------
NoPost == [body |-> [body |-> "undefined", kind |-> "undefined", text |-> <<>>],
           status |-> 0, sessionId |-> 0]

Init ==
    /\ mode \in {"multi", "single"}
    /\ sessions = {}
    /\ session = <<>>
    /\ run = <<>>
    /\ conns = <<>>
    /\ posts = 0
    /\ lastPost = NoPost
    /\ activeRun = "null"
    /\ handler = "none"
    /\ runPromise = PendingPromise
    /\ microtasks = <<>>
    /\ results = <<>>
    /\ loadingStates = <<>>
    /\ lastResponseId = Undefined
    /\ response = NoResponse
    /\ executors = 0
    /\ unhandled = 0
    /\ process = "up"
    /\ server = "binding"
    /\ startup = "pending"
    /\ signalled = FALSE
    /\ now = 0
    /\ startedAt = 0
    /\ fired = <<>>
    /\ steps = 0

Next ==
    \/ \E b \in Bodies : PostRun(b)
    \/ \E id \in Ids : InputResolved(id)
    \/ \E id \in Ids, e \in Rejections : InputRejected(id, e)
    \/ \E id \in Ids, i \in Items : OnItem(id, i)
    \/ \E id \in Ids, l \in Loadings : OnLoading(id, l)
    \/ \E id \in Ids : GetCommandConfirmation(id)
    \/ \E id \in Ids : RunResolved(id)
    \/ \E id \in Ids, e \in Rejections : RunRejected(id, e)
    \/ \E id \in 1..MaxPosts : GetStream(id)
    \/ \E c \in DOMAIN conns : KeepAlive(c)
    \/ \E c \in DOMAIN conns : ConnDies(c)
    \/ \E c \in DOMAIN conns : OnClose(c)
    \/ \E b \in Bodies : Post(b)
    \/ CreateInputItemResolved
    \/ \E e \in Rejections : CreateInputItemRejected(e)
    \/ \E i \in BufferedItems : PushItem(i)
    \/ \E l \in BufferedLoadings : PushLoading(l)
    \/ \E r \in ResponseIds : SetLastResponseId(r)
    \/ AgentRunResolved
    \/ \E e \in Rejections : AgentRunRejected(e)
    \/ FinallyCallback
    \/ AwaitResumes
    \/ UnhandledRejectionThrows
    \/ UnhandledRejectionWarns
    \/ ClockAdvances
    \/ Listening
    \/ BindFails
    \/ Signal
    \/ ServerCloses

Spec == Init /\ [][Next]_vars

\* Node emits "close" on the request of every connection that was destroyed:
\* the close handler of a stream whose connection is gone does run.  And it
\* emits "close" on a server that was closed once its connections have ended.
FairSpec ==
    /\ Spec
    /\ WF_vars(\E c \in Dead : OnClose(c))
    /\ WF_vars(ServerCloses)

-----------------------------------------------------------------------------
(* Properties *)

\* What a response has been sent, without the keep-alive chunks.
eventChunks(sent) == SelectSeq(sent, LAMBDA chunk : chunk # KeepAliveChunk)

\* The chunks of the events of a log, in log order.
RECURSIVE chunksOf(_)
chunksOf(events) ==
    IF events = <<>> THEN <<>>
    ELSE << <<"event", Head(events).type>> >>
         \o (IF Head(events).type = "complete"
                THEN <<>>
                ELSE << <<"data", "json">> \o Head(events).data >>)
         \o << <<"nl">> >>
         \o chunksOf(Tail(events))

Terminal(e) == e.type \in {"complete", "error"}

\* C1: in every reachable state, what has been written to each attached
\* observer is exactly the session's event log, in log order: the events
\* replayed when it attached (the log of that moment) followed by the events
\* emitted since, with no gap, duplicate or reordering.
C1_RelayEqualsLog ==
    \A id \in Ids : \A c \in session[id].listeners :
        /\ c \in DOMAIN conns
        /\ conns[c].state = "streaming"
        /\ conns[c].id = id
        /\ conns[c].replayed <= Len(session[id].events)
        /\ eventChunks(conns[c].sent) = chunksOf(session[id].events)

\* An observer that attached mid-stream and has received live events since.
C1_Witness ==
    \E c \in DOMAIN conns :
        /\ conns[c].state = "streaming"
        /\ conns[c].replayed >= 1
        /\ conns[c].replayed < Len(session[conns[c].id].events)
        /\ \E d \in DOMAIN conns :
              /\ d # c
              /\ conns[d].state = "streaming"
              /\ conns[d].id = conns[c].id
              /\ conns[d].replayed = 0

\* A step in which the stream request c is handled.
StreamRequest(c) == c = Len(conns) + 1 /\ Len(conns') = c

\* A step in which the close handler of stream c runs.
Detaches(c) ==
    /\ c \in DOMAIN conns
    /\ conns[c].state = "streaming"
    /\ conns'[c].state = "closed"

\* C2: a stream request for the id of a session whose run has completed, made
\* before any observer has detached from that session, is accepted and is
\* replayed the whole log, which ends with the terminal event; when that
\* observer detaches the session is reclaimed.
C2_AttachAfterCompletion ==
    [][\A c \in 1..MaxConns :
          /\ (StreamRequest(c) /\ conns'[c].id \in Ids
              /\ session[conns'[c].id].completed
              /\ \A d \in DOMAIN conns :
                    conns[d].id = conns'[c].id => conns[d].state = "streaming")
             => /\ conns'[c].state = "streaming"
                /\ eventChunks(conns'[c].sent) = chunksOf(session[conns'[c].id].events)
                /\ Terminal(session[conns'[c].id].events[Len(session[conns'[c].id].events)])
          /\ (Detaches(c) /\ session[conns[c].id].completed
              /\ session[conns[c].id].listeners = {c})
             => conns[c].id \notin sessions'
      ]_vars

\* C3: a created session is registered exactly when it is not both completed
\* and without observers; so none is removed while it is incomplete or
\* observed, and the check has run after every detach and completion.
C3_RegistryMembership ==
    /\ sessions \subseteq Ids
    /\ \A id \in Ids :
          id \in sessions <=> ~(session[id].completed /\ session[id].listeners = {})

\* A session that stayed registered after completion, for an observer that
\* attached afterwards, and was removed when that observer detached.
C3_Witness ==
    \E id \in Ids : \E c \in DOMAIN conns :
        /\ session[id].completed
        /\ id \notin sessions
        /\ conns[c].id = id
        /\ conns[c].state = "closed"
        /\ conns[c].replayed = Len(session[id].events)

\* C4: a stream request for an id that is not registered (never created, or
\* reclaimed) is answered 404: nothing is written to it then or later, it
\* gets no keep-alive timer, it joins no session and the registry and the
\* sessions stay as they were.
C4_NotFound ==
    /\ [](\A c \in DOMAIN conns :
             conns[c].state = "notfound"
                => /\ conns[c].sent = <<>>
                   /\ ~conns[c].keepAlive
                   /\ \A id \in Ids : c \notin session[id].listeners)
    /\ [][\A c \in 1..MaxConns :
             (StreamRequest(c) /\ conns'[c].id \notin sessions)
                => /\ conns'[c].state = "notfound"
                   /\ conns'[c].sent = <<>>
                   /\ UNCHANGED <<sessions, session, run>>
                   /\ \A d \in DOMAIN conns : conns'[d] = conns[d]
         ]_vars

\* A request for the id of a reclaimed session, after a keep-alive tick went
\* to another stream.
C4_Witness ==
    \E c, d \in DOMAIN conns :
        /\ d < c
        /\ conns[c].state = "notfound"
        /\ conns[d].id = conns[c].id
        /\ conns[d].state = "closed"
        /\ conns[c].id \in Ids
        /\ session[conns[c].id].completed

\* A step in which a POST /api/run request is handled.
PostRequest == posts' = posts + 1

\* C5: at most one executor invocation is in flight; a start request that
\* arrives while the run handle is set is answered 409 whatever its body,
\* invokes no executor and leaves the handle and the buffers of the
\* outstanding run as they were.
C5_SingleFlight ==
    /\ [](mode = "single" => executors <= 1)
    /\ [][(mode = "single" /\ PostRequest /\ activeRun # "null")
             => /\ lastPost'.status = 409
                /\ UNCHANGED singleVars
         ]_vars

\* A request without a prompt was answered 409 while the executor ran, and
\* the run has gone on buffering.
C5_Witness ==
    /\ mode = "single"
    /\ lastPost.status = 409
    /\ lastPost.body.kind # "string"
    /\ executors = 1
    /\ results # <<>>

\* C6: when the run has settled, fulfilled or rejected, the handle is cleared,
\* and it is cleared by the time the caller's response is sent; a valid start
\* request handled after that response is admitted, never answered 409.
C6_Release ==
    /\ [](mode = "single"
            => /\ (response.status # 0 => activeRun = "null")
               /\ (runPromise.state # "pending" /\ microtasks = <<>>
                     => activeRun = "null" /\ response.status # 0))
    /\ [][(mode = "single" /\ PostRequest /\ response.status # 0
           /\ lastPost'.body.kind = "string"
           /\ \E i \in DOMAIN lastPost'.body.text : lastPost'.body.text[i] # Blank)
             => /\ lastPost'.status = 0
                /\ activeRun' = "promise"
                /\ handler' = "createInputItem"
         ]_vars

\* A second run was admitted after the first had been rejected and answered.
C6_Witness ==
    /\ mode = "single"
    /\ posts = 2
    /\ lastPost.status = 0
    /\ handler = "agent.run"
    /\ unhandled = 1

terminals(events) == SelectSeq(events, Terminal)

\* C7: a session whose run has settled has exactly one terminal event in its
\* log, "complete" if the run fulfilled and "error" if it rejected, and its
\* completed flag is set; before that it has none and the flag is clear.  A
\* settled session without observers is reclaimed.
C7_TerminalEvent ==
    \A id \in Ids :
        IF run[id].pc = "returned"
           THEN /\ Len(terminals(session[id].events)) = 1
                /\ terminals(session[id].events)[1].type
                      = (IF run[id].outcome = "fulfilled" THEN "complete" ELSE "error")
                /\ run[id].outcome \in {"fulfilled", "rejected"}
                /\ session[id].completed
                /\ (session[id].listeners = {} => id \notin sessions)
           ELSE /\ terminals(session[id].events) = <<>>
                /\ ~session[id].completed

\* A rejected run that was observed, got its single "error" event and was
\* reclaimed when the observer left.
C7_Witness ==
    \E id \in Ids : \E c \in DOMAIN conns :
        /\ run[id].outcome = "rejected"
        /\ run[id].reason.isError
        /\ id \notin sessions
        /\ conns[c].id = id
        /\ conns[c].state = "closed"
        /\ conns[c].replayed < Len(session[id].events)
        /\ eventChunks(conns[c].sent) = chunksOf(session[id].events)

\* The message of a rejection: an Error's message, the text of another value.
messageOf(reason) == reason.text

\* C8: the "error" event of a rejected run (multi-session) and the error field
\* of the 500 response (single-flight) carry the message of the rejection,
\* whatever value the executor rejected with.
C8_UnderlyingMessage ==
    /\ \A id \in Ids :
          (run[id].outcome = "rejected" /\ run[id].awaited = "agent.run")
             => session[id].events[Len(session[id].events)]
                   = [type |-> "error",
                      data |-> <<"message", messageOf(run[id].reason)>>]
    /\ (response.status = 500 /\ handler = "returned")
          => response.error = messageOf(runPromise.reason)

\* C9: a detach, also of the last observer, leaves the run where it was and
\* the log as it was, and a session whose run has not settled stays
\* registered, observed or not.
C9_DetachKeepsRun ==
    /\ [](\A id \in Ids : run[id].pc # "returned" => id \in sessions)
    /\ [][\A c \in 1..MaxConns :
             Detaches(c)
                => /\ run' = run
                   /\ \A id \in Ids :
                         /\ session'[id].events = session[id].events
                         /\ session'[id].completed = session[id].completed
                   /\ (run[conns[c].id].pc # "returned"
                         => conns[c].id \in sessions')
         ]_vars

\* The only observer left during the run; events went on being logged, and
\* an observer that attached later was replayed them.
C9_Witness ==
    /\ Len(conns) = 2
    /\ conns[1].state = "closed"
    /\ conns[2].state = "streaming"
    /\ conns[2].id = conns[1].id
    /\ Len(eventChunks(conns[1].sent)) < Len(eventChunks(conns[2].sent))
    /\ conns[2].replayed >= 2
    /\ run[conns[2].id].pc = "agent.run"
    /\ eventChunks(conns[2].sent) = chunksOf(session[conns[2].id].events)

\* A body whose prompt is missing, not a string, or blank.
InvalidBody(b) ==
    \/ b.body = "undefined"
    \/ b.kind # "string"
    \/ \A i \in DOMAIN b.text : b.text[i] = Blank

\* C10 as stated: every start request with an invalid prompt is answered 400
\* and changes nothing.
C10_Original ==
    [][(PostRequest /\ InvalidBody(lastPost'.body))
          => /\ lastPost'.status = 400
             /\ UNCHANGED <<multiVars, singleVars>>
      ]_vars

\* C10, amended: a start request with an invalid prompt is rejected and
\* changes nothing: no session, no executor, the run handle as it was.  The
\* status is 400, except that the single-flight server answers 409 while a
\* run is outstanding, its admission check coming first.  A valid request
\* that follows a 400 is admitted.
C10_ValidationChangesNothing ==
    /\ [][(PostRequest /\ InvalidBody(lastPost'.body))
             => /\ lastPost'.status
                      = (IF mode = "single" /\ activeRun # "null" THEN 409 ELSE 400)
                /\ UNCHANGED <<multiVars, singleVars>>
         ]_vars
    /\ [][(PostRequest /\ lastPost.status = 400 /\ ~InvalidBody(lastPost'.body))
             => IF mode = "single"
                   THEN lastPost'.status = 0 /\ handler' = "createInputItem"
                   ELSE lastPost'.status = 200 /\ lastPost'.sessionId \in sessions'
         ]_vars

\* A blank prompt was answered 400 by a server that was running nothing.
C10_Witness ==
    /\ lastPost.status = 400
    /\ lastPost.body.kind = "string"
    /\ posts = 2

\* C11: the multi-session server admits every valid start request, however
\* many runs are in flight: the request is answered 200 with the id of a
\* session created in that step, an id no earlier session has, registered,
\* with an empty log, no observers and the completed flag clear.  The answer
\* is given while the run is still at its first await: no event of the run
\* has been emitted and the run has not completed.  The sessions and runs
\* that existed are left as they were.
C11_Admission ==
    [][(mode = "multi" /\ PostRequest /\ ~InvalidBody(lastPost'.body))
          => LET id == lastPost'.sessionId IN
             /\ lastPost'.status = 200
             /\ id \notin Ids
             /\ id \in 1..Len(session')
             /\ Len(session') = Len(session) + 1
             /\ id \in sessions'
             /\ session'[id].events = <<>>
             /\ session'[id].listeners = {}
             /\ ~session'[id].completed
             /\ run'[id].pc = "createInputItem"
             /\ run'[id].outcome = "pending"
             /\ \A j \in Ids : session'[j] = session[j] /\ run'[j] = run[j]
             /\ sessions \subseteq sessions'
      ]_vars

\* A second session was admitted while the run of the first, which had
\* already emitted an event, was in flight.
C11_Witness ==
    /\ mode = "multi"
    /\ Len(session) = 2
    /\ lastPost.status = 200
    /\ lastPost.sessionId = 2
    /\ run[1].pc = "agent.run"
    /\ session[1].events # <<>>
    /\ session[2].events = <<>>
    /\ 2 \in sessions

\* The arguments of the calls of one callback among the calls made, in order.
RECURSIVE argsOf(_, _)
argsOf(calls, callback) ==
    IF calls = <<>> THEN <<>>
    ELSE (IF Head(calls)[1] = callback THEN <<Head(calls)[2]>> ELSE <<>>)
         \o argsOf(Tail(calls), callback)

\* C12: the single-flight server answers the admitted caller only after the
\* run has settled, never while createInputItem or the executor is pending;
\* a 200 answer follows a fulfilled run and carries exactly the items the
\* executor passed to onItem, in the order of the calls, exactly the loading
\* transitions it passed to onLoading, in the order of the calls, and a
\* durationMs that is not negative (the clock never goes back).
C12_BufferedResult ==
    mode = "single"
       => /\ (response.status # 0
                => /\ runPromise.state # "pending"
                   /\ executors = 0
                   /\ handler = "returned")
          /\ (response.status = 200
                => /\ runPromise.state = "fulfilled"
                   /\ response.items = argsOf(fired, "onItem")
                   /\ Len(response.loading) = Len(argsOf(fired, "onLoading"))
                   /\ \A i \in DOMAIN response.loading :
                         response.loading[i]
                            = <<"loading", argsOf(fired, "onLoading")[i]>>
                   /\ response.durationMs >= 0)

\* A run that reported a loading transition and then an item, took time and
\* was answered 200.
C12_Witness ==
    /\ mode = "single"
    /\ response.status = 200
    /\ fired = << <<"onLoading", "false">>, <<"onItem", "i2">> >>
    /\ response.durationMs > 0

\* C13: the 500 answer of the single-flight server has every field of the
\* 200 answer (items, loading, lastResponseId, durationMs) and the field
\* error besides, and carries the items and the loading transitions the
\* executor had produced before it failed and the last response id it had
\* reported.
C13_FailurePayload ==
    (mode = "single" /\ response.status = 500)
       => /\ {"error", "items", "loading", "lastResponseId", "durationMs"}
                \subseteq response.fields
          /\ response.items = argsOf(fired, "onItem")
          /\ response.loading
                = [i \in DOMAIN argsOf(fired, "onLoading")
                     |-> <<"loading", argsOf(fired, "onLoading")[i]>>]
          /\ response.lastResponseId = lastResponseId

\* C14: no failure escapes: in neither server is a rejected promise ever left
\* without a rejection handler, the promise stored as the run handle
\* included, and the process is never ended by one.
C14_NothingUnhandled ==
    /\ unhandled = 0
    /\ process = "up"

\* C15: reclaiming and detaching are idempotent.  In every reachable state
\* each session has had its reclaim check since its flag and its observers
\* last changed, so running the check again, once or twice, also for a
\* session that has been removed, leaves the registry as it is; and running
\* the detach of an observer that has detached again (delete, then the
\* check) leaves the observers, the log and the flag of its session and the
\* registry as they are.
C15_Idempotent ==
    /\ \A id \in Ids :
          LET once == cleanupSessionIfIdle(sessions, id, session[id])
              twice == cleanupSessionIfIdle(once, id, session[id])
          IN once = sessions /\ twice = once
    /\ \A c \in DOMAIN conns :
          conns[c].state = "closed"
             => LET id == conns[c].id
                    s == detach(session[id], c)
                IN /\ s = session[id]
                   /\ cleanupSessionIfIdle(sessions, id, s) = sessions

\* An observer has detached from a session that is still observed by
\* another, and an observer has detached from a session that was reclaimed.
C15_Witness ==
    /\ \E c, d \in DOMAIN conns :
          /\ conns[c].state = "closed"
          /\ conns[d].state = "streaming"
          /\ conns[d].id = conns[c].id
    /\ \E id \in Ids : id \notin sessions

\* C16: the completed flag of a session is clear from its creation for as
\* long as its run has not settled, it is set once the run has settled, and
\* no step clears a flag that is set: it changes once, from clear to set.
C16_CompletedMonotonic ==
    /\ [](\A id \in Ids : session[id].completed <=> run[id].pc = "returned")
    /\ [][\A id \in Ids : session[id].completed => session'[id].completed]_vars

\* A completed session went through an attach and a detach afterwards, and
\* another session has not completed yet.
C16_Witness ==
    /\ \E c \in DOMAIN conns :
          /\ conns[c].state = "closed"
          /\ conns[c].replayed = Len(session[conns[c].id].events)
          /\ session[conns[c].id].completed
    /\ \E id \in Ids : ~session[id].completed /\ run[id].pc = "agent.run"

\* s is a prefix of t.
IsPrefix(s, t) == Len(s) <= Len(t) /\ SubSeq(t, 1, Len(s)) = s

\* C17: every log is append-only.  A step leaves a log as it is or appends
\* one event to it.  The steps that append are the emits: a request, a
\* detach and a keep-alive tick leave every log as it is.  The event is in
\* the log when it is written to the observers: the step that appends it
\* writes that event, and nothing else, to each observer of the session, and
\* no observer, attached or detached, is ever ahead of the log.
C17_AppendOnly ==
    /\ [](\A c \in DOMAIN conns :
             conns[c].state # "notfound"
                => IsPrefix(eventChunks(conns[c].sent),
                            chunksOf(session[conns[c].id].events)))
    /\ [][\A id \in Ids :
             /\ IsPrefix(session[id].events, session'[id].events)
             /\ Len(session'[id].events) <= Len(session[id].events) + 1
             /\ (PostRequest \/ TicksFired' # TicksFired
                 \/ \E c \in 1..MaxConns : StreamRequest(c) \/ Detaches(c))
                   => session'[id].events = session[id].events
             /\ session'[id].events # session[id].events
                   => \A c \in session[id].listeners :
                         eventChunks(conns'[c].sent)
                            = eventChunks(conns[c].sent)
                              \o chunksOf(<<session'[id].events[Len(session'[id].events)]>>)
         ]_vars

\* A log of two events, whose first event an observer that has detached
\* since received live, while an observer that is attached has both.
C17_Witness ==
    \E c, d \in DOMAIN conns :
        /\ conns[c].id = conns[d].id
        /\ conns[c].state = "closed"
        /\ conns[c].replayed = 0
        /\ conns[d].state = "streaming"
        /\ Len(session[conns[c].id].events) = 2
        /\ eventChunks(conns[c].sent)
              = chunksOf(<<session[conns[c].id].events[1]>>)
        /\ eventChunks(conns[d].sent) = chunksOf(session[conns[d].id].events)

\* The chunks res.write dropped because the socket was gone.
dropped(conn) == SubSeq(conn.sent, conn.delivered + 1, Len(conn.sent))

\* A step in which the run of session id emits: a callback, or the end of
\* runAgentForSession.
Emits(id) ==
    \/ run'[id].calls # run[id].calls
    \/ run[id].pc # "returned" /\ run'[id].pc = "returned"

\* Connection c has lost an event to a write that failed.
LostEvent(c) == c \in DOMAIN conns /\ eventChunks(dropped(conns[c])) # <<>>

\* C18: a write that fails stays with its connection.  When a run emits an
\* event while the connection of one of the observers is gone, the event is
\* appended to the log all the same, every observer whose connection is alive
\* is written it and receives it, the dead connection receives nothing, and
\* the run goes on as it would have: a callback returns to an executor that
\* is still pending, a resolved run ends with "complete".  Nothing is thrown.
\* The observer that lost the event does not stay attached: the close
\* handler of its request removes it.
C18_TransportFailureIsolated ==
    /\ [][\A id \in Ids :
             (Emits(id) /\ \E c \in session[id].listeners : ~conns[c].alive)
                => /\ Len(session'[id].events) = Len(session[id].events) + 1
                   /\ \A d \in session[id].listeners :
                         IF conns[d].alive
                            THEN /\ conns'[d].delivered = Len(conns'[d].sent)
                                 /\ eventChunks(conns'[d].sent)
                                       = chunksOf(session'[id].events)
                            ELSE /\ conns'[d].delivered = conns[d].delivered
                                 /\ LostEvent(d)'
                   /\ run'[id].calls # run[id].calls
                         => run'[id].pc = "agent.run" /\ run'[id].outcome = "pending"
                   /\ (run'[id].pc = "returned" /\ run'[id].outcome = "fulfilled")
                         => session'[id].events[Len(session'[id].events)].type
                               = "complete"
                   /\ process' = "up"
         ]_vars
    /\ (\E c \in Dead : LostEvent(c))
          ~> (\A c \in DOMAIN conns :
                 LostEvent(c)
                    => /\ conns[c].state = "closed"
                       /\ \A id \in Ids : c \notin session[id].listeners)

\* An event was emitted while the connection of the first of two observers
\* was gone: the second observer received it, the first has been detached.
C18_Witness ==
    /\ Len(conns) = 2
    /\ conns[1].id = conns[2].id
    /\ LostEvent(1)
    /\ conns[1].state = "closed"
    /\ conns[2].state = "streaming"
    /\ conns[2].alive
    /\ conns[2].delivered = Len(conns[2].sent)
    /\ eventChunks(conns[2].sent) = chunksOf(session[conns[2].id].events)
    /\ session[conns[2].id].listeners = {2}

\* Connection c has lost a keep-alive frame to a write that failed.
LostKeepAlive(c) ==
    /\ c \in DOMAIN conns
    /\ \E i \in DOMAIN dropped(conns[c]) : dropped(conns[c])[i] = KeepAliveChunk

\* C19: a keep-alive write to a connection that is gone ends in a detach.
\* The write itself reaches nobody, throws nothing and changes no session,
\* run or registry.  The observer does not stay attached: the close handler
\* of its request runs, removes it from the observers of its session, clears
\* its keep-alive timer, after which it gets no tick, and evaluates the
\* reclaim of the session.
C19_KeepAliveFailureDetaches ==
    /\ [][\A c \in DOMAIN conns :
             /\ (conns'[c].ticks # conns[c].ticks /\ ~conns[c].alive)
                   => /\ conns'[c].delivered = conns[c].delivered
                      /\ LostKeepAlive(c)'
                      /\ UNCHANGED <<sessions, session, run, process>>
             /\ (Detaches(c) /\ LostKeepAlive(c))
                   => /\ \A id \in Ids : c \notin session'[id].listeners
                      /\ ~conns'[c].keepAlive
                      /\ sessions'
                            = (IF session[conns[c].id].completed
                                  /\ session[conns[c].id].listeners = {c}
                                  THEN sessions \ {conns[c].id}
                                  ELSE sessions)
             /\ conns[c].state = "closed" => conns'[c].ticks = conns[c].ticks
         ]_vars
    /\ (\E c \in Dead : LostKeepAlive(c))
          ~> (\A c \in DOMAIN conns :
                 LostKeepAlive(c)
                    => /\ conns[c].state = "closed"
                       /\ ~conns[c].keepAlive
                       /\ \A id \in Ids : c \notin session[id].listeners)

\* The only observer of a session lost a keep-alive frame, the run completed,
\* and the close handler detached the observer and reclaimed the session.
C19_Witness ==
    \E c \in DOMAIN conns :
        /\ LostKeepAlive(c)
        /\ conns[c].state = "closed"
        /\ ~conns[c].keepAlive
        /\ session[conns[c].id].completed
        /\ conns[c].id \notin sessions

\* The keep-alive frames among the chunks written.
keepAlives(sent) == SelectSeq(sent, LAMBDA chunk : chunk = KeepAliveChunk)

\* C20: keep-alive frames are apart from the logs.  Every attached observer
\* has a keep-alive timer, whatever the log holds.  A tick of a timer writes
\* one frame to its observer and changes no log, no session, no run and not
\* the registry.  No log holds anything but item, status, complete and error
\* events, and what a request is written when it attaches is the events of
\* the log and no keep-alive frame: the keep-alive frames a stream has been
\* written are as many as the ticks of its own timer.
C20_KeepAliveApart ==
    /\ [](/\ \A c \in DOMAIN conns :
                /\ conns[c].state = "streaming" => conns[c].keepAlive
                /\ Len(keepAlives(conns[c].sent)) = conns[c].ticks
          /\ \A id \in Ids : \A i \in DOMAIN session[id].events :
                session[id].events[i].type
                   \in {"item", "status", "complete", "error"})
    /\ [][/\ TicksFired' # TicksFired
             => /\ UNCHANGED <<sessions, session, run>>
                /\ \A c \in DOMAIN conns :
                      \/ conns'[c] = conns[c]
                      \/ /\ conns'[c].sent = Append(conns[c].sent, KeepAliveChunk)
                         /\ conns'[c].ticks = conns[c].ticks + 1
          /\ \A c \in 1..MaxConns :
                (StreamRequest(c) /\ conns'[c].state = "streaming")
                   => /\ conns'[c].sent = chunksOf(session[conns'[c].id].events)
                      /\ keepAlives(conns'[c].sent) = <<>>
         ]_vars

\* A stream that attached to a log that was not empty, after a keep-alive
\* frame had gone to another stream of the session, was replayed no such frame.
C20_Witness ==
    \E c, d \in DOMAIN conns :
        /\ d < c
        /\ conns[c].id = conns[d].id
        /\ conns[d].ticks = 1
        /\ conns[d].replayed = 0
        /\ conns[c].state = "streaming"
        /\ conns[c].replayed >= 1
        /\ conns[c].ticks = 0
        /\ keepAlives(conns[c].sent) = <<>>
        /\ keepAlives(conns[d].sent) # <<>>

\* C21: requests are accepted only once the socket is bound, and a bind that
\* fails rejects the start-up and accepts nothing; after a SIGINT or SIGTERM
\* no request is accepted; and the shutdown completes (the promise of the
\* multi-session server resolves, the process of the single-flight server
\* ends) only when the listening socket has closed.
C21_Lifecycle ==
    /\ []((posts > 0 \/ conns # <<>>)
             => server \in {"listening", "closing", "closed"})
    /\ [](server = "failed"
             => startup = "rejected" /\ posts = 0 /\ conns = <<>>)
    /\ [][signalled
             => ~(PostRequest \/ \E c \in 1..MaxConns : StreamRequest(c))]_vars
    /\ []((startup = "resolved" \/ process \in {"exited", "killed"})
             => server = "closed")

\* C22: after a SIGINT or SIGTERM every observer that is still attached is
\* removed from the observers of its session and the shutdown completes,
\* also when no client disconnects.
C22_ShutdownDetaches ==
    (mode = "multi" /\ signalled)
       ~> (/\ \A id \in Ids : session[id].listeners = {}
           /\ startup = "resolved")

\* The last event of a log.
Last(events) == events[Len(events)]

\* C23 as stated: the executor is invoked exactly once for every admitted
\* session, so a session whose run has ended has had one invocation.
C23_Original ==
    \A id \in Ids :
        /\ run[id].invoked <= 1
        /\ run[id].pc = "returned" => run[id].invoked = 1

\* C23, amended: agent.run is invoked at most once for a session: once when
\* the input was built, never when building the input failed.  A rejection,
\* of either, ends the run for good: the log ends with its one "error"
\* event, the session is completed, and no later step invokes the executor
\* or changes the run.
C23_NoRetry ==
    /\ [](\A id \in Ids :
             /\ run[id].invoked <= 1
             /\ run[id].invoked = (IF run[id].awaited = "agent.run" THEN 1 ELSE 0)
             /\ run[id].outcome = "rejected"
                   => /\ run[id].pc = "returned"
                      /\ session[id].completed
                      /\ Last(session[id].events).type = "error"
                      /\ Len(terminals(session[id].events)) = 1)
    /\ [][\A id \in Ids : run[id].pc = "returned" => run'[id] = run[id]]_vars

\* The executor of a session was invoked and rejected; afterwards an observer
\* attached to the session and detached again.
C23_Witness ==
    \E id \in Ids : \E c \in DOMAIN conns :
        /\ run[id].outcome = "rejected"
        /\ run[id].awaited = "agent.run"
        /\ run[id].invoked = 1
        /\ conns[c].id = id
        /\ conns[c].state = "closed"
        /\ conns[c].replayed = Len(session[id].events)

\* C24: the end of a run, after a resolved executor, a rejected executor or
\* a failed input building alike, runs in this order: the terminal event is
\* emitted, agent.terminate() is called, completed is set, the reclaim is
\* evaluated; agent.terminate() is called once per session, and not before.
\* In the step that ends the run every observer attached to the session is
\* written the terminal event as the last event of its stream, and the
\* session leaves the registry in that step only if it has no observer.
C24_TerminalOrder ==
    /\ [](\A id \in Ids :
             IF run[id].pc = "returned"
                THEN /\ run[id].trail = <<"emit", "agent.terminate", "completed",
                                         "cleanupSessionIfIdle">>
                     /\ run[id].terminated = 1
                     /\ Terminal(Last(session[id].events))
                     /\ session[id].completed
                ELSE run[id].trail = <<>> /\ run[id].terminated = 0)
    /\ [][\A id \in Ids :
             (run[id].pc # "returned" /\ run'[id].pc = "returned")
                => /\ \A c \in session[id].listeners :
                         /\ eventChunks(conns'[c].sent) = chunksOf(session'[id].events)
                         /\ Terminal(Last(session'[id].events))
                         /\ c \in session'[id].listeners
                   /\ id \notin sessions' <=> session[id].listeners = {}
         ]_vars

\* Building the input failed for a session that was observed: the observer
\* has the "error" event and the session is still registered; the run of
\* another session ended unobserved and that session was reclaimed.
C24_Witness ==
    /\ \E id \in Ids : \E c \in DOMAIN conns :
          /\ run[id].pc = "returned"
          /\ run[id].awaited = "createInputItem"
          /\ c \in session[id].listeners
          /\ eventChunks(conns[c].sent) = chunksOf(session[id].events)
          /\ id \in sessions
    /\ \E id \in Ids :
          /\ run[id].pc = "returned"
          /\ run[id].outcome = "fulfilled"
          /\ id \notin sessions

\* The event a callback call is translated to.
eventOf(call) ==
    IF call[1] = "onItem"
       THEN [type |-> "item", data |-> <<"text", call[2]>>]
       ELSE [type |-> "status", data |-> <<"loading", call[2]>>]

\* C25: the "item" and "status" events of a log are, one for one and in
\* order, the onItem and onLoading calls the executor has made for that
\* session: an "item" event with the item's text for an onItem call, a
\* "status" event with the loading value for an onLoading call.  Every
\* confirmation request is answered with approval, and answering it changes
\* no log, no observer's stream and not the registry.
C25_CallbackTranslation ==
    /\ [](\A id \in Ids :
             LET evs == SelectSeq(session[id].events, LAMBDA e : ~Terminal(e))
             IN /\ Len(evs) = Len(run[id].calls)
                /\ \A i \in DOMAIN evs : evs[i] = eventOf(run[id].calls[i])
                /\ \A i \in DOMAIN run[id].reviews :
                      run[id].reviews[i] = "ReviewDecision.YES")
    /\ [][\A id \in Ids :
             run'[id].reviews # run[id].reviews
                => /\ Len(run'[id].reviews) = Len(run[id].reviews) + 1
                   /\ UNCHANGED <<sessions, session, conns>>
         ]_vars

\* The executor reported a loading transition, asked for a confirmation and
\* produced an item; the log holds a "status" and an "item" event.
C25_Witness ==
    \E id \in Ids :
        /\ run[id].calls = << <<"onLoading", "true">>, <<"onItem", "i1">> >>
        /\ run[id].reviews # <<>>
        /\ Len(session[id].events) = 2
        /\ session[id].events[1].type = "status"
        /\ session[id].events[2].type = "item"

\* Session id is completed and has no observer.
IdleSession(id) ==
    id \in Ids /\ session[id].completed /\ session[id].listeners = {}

\* C26: a session whose run settles and whose observers all detach is
\* removed from the registry: no session stays registered for ever once its
\* run has returned and the streams attached to it have all been closed.  It
\* is removed in the very step in which it becomes completed and unobserved,
\* the completion or the last detach, whichever comes second, and in no other
\* step.
C26_EventualReclaim ==
    /\ [](\A id \in Ids : IdleSession(id) => id \notin sessions)
    /\ [][\A id \in Ids :
             (id \in sessions /\ id \notin sessions')
                <=> (~IdleSession(id) /\ IdleSession(id)')
         ]_vars
    /\ ~<>[](\E id \in Ids :
                /\ run[id].pc = "returned"
                /\ \A c \in DOMAIN conns :
                      conns[c].id = id => conns[c].state # "streaming"
                /\ id \in sessions)

\* A session was reclaimed by the completion of its run, its only observer
\* having detached during the run.
C26_Witness ==
    \E c \in DOMAIN conns :
        /\ conns[c].state = "closed"
        /\ conns[c].id \notin sessions
        /\ run[conns[c].id].outcome = "fulfilled"
        /\ eventChunks(conns[c].sent) # chunksOf(session[conns[c].id].events)
        /\ \A d \in DOMAIN conns : d # c => conns[d].id # conns[c].id

\* The session record of id or its registry entry changes in this step.
Touched(id) ==
    \/ session'[id] # session[id]
    \/ (id \in sessions) # (id \in sessions')

\* The events appended to the log of id in this step.
appended(id) ==
    SubSeq(session'[id].events, Len(session[id].events) + 1,
           Len(session'[id].events))

\* C27: sessions are isolated from one another.  A step touches the log, the
\* observer set, the completed flag and the registry entry of one session at
\* most: an emit, an attach, a detach, a completion or a reclaim of one
\* session leaves every other session as it was, and so does the creation of
\* a session.  A stream stays with its session, a stream that attaches joins
\* the observer set of the session it asked for and of no other and is
\* replayed that session's log, and the event chunks a step writes to a
\* stream are the events the step appended to the log of the stream's own
\* session.
C27_Isolation ==
    [][/\ \A id \in Ids : \A other \in Ids \ {id} :
             Touched(id) => ~Touched(other)
       /\ Len(session') > Len(session) => \A id \in Ids : ~Touched(id)
       /\ \A c \in DOMAIN conns :
             /\ conns'[c].id = conns[c].id
             /\ eventChunks(conns'[c].sent) # eventChunks(conns[c].sent)
                   => /\ conns[c].id \in Ids
                      /\ c \in session[conns[c].id].listeners
                      /\ appended(conns[c].id) # <<>>
                      /\ eventChunks(conns'[c].sent)
                            = eventChunks(conns[c].sent)
                                 \o chunksOf(appended(conns[c].id))
       /\ \A c \in DOMAIN conns' \ DOMAIN conns :
             conns'[c].state = "streaming"
                => /\ conns'[c].sent = chunksOf(session[conns'[c].id].events)
                   /\ \A id \in Ids :
                         c \in session'[id].listeners <=> id = conns'[c].id
      ]_vars

\* Two sessions have an observer each, and an event was emitted on the
\* session whose observer attached second: it was written to that observer
\* and the observer of the other session was written nothing.
C27_Witness ==
    \E c \in DOMAIN conns, d \in DOMAIN conns :
        /\ d < c
        /\ conns[c].id # conns[d].id
        /\ conns[c].state = "streaming" /\ conns[d].state = "streaming"
        /\ conns[c].replayed = 0
        /\ eventChunks(conns[c].sent) # <<>>
        /\ conns[d].sent = <<>>
        /\ session[conns[d].id].events = <<>>

\* The sessions whose observer set holds stream c.
observedBy(c) == {id \in Ids : c \in session[id].listeners}

\* C28: in every reachable state a session that has left the registry has no
\* observer and is completed, so no observer is attached to a reclaimed
\* session; every open stream is in the observer set of exactly one session,
\* the registered session it asked for; and an observer set holds open
\* streams only.
C28_ObserverSets ==
    /\ \A id \in Ids :
          id \notin sessions
             => session[id].listeners = {} /\ session[id].completed
    /\ \A c \in DOMAIN conns :
          conns[c].state = "streaming"
             => /\ observedBy(c) = {conns[c].id}
                /\ conns[c].id \in sessions
    /\ \A id \in Ids : \A c \in session[id].listeners :
          c \in DOMAIN conns /\ conns[c].state = "streaming"

\* A stream request for a reclaimed session was refused while a stream of
\* another session is open.
C28_Witness ==
    \E c \in DOMAIN conns, d \in DOMAIN conns :
        /\ conns[c].state = "notfound"
        /\ conns[c].id \in Ids \ sessions
        /\ conns[d].state = "streaming"
        /\ conns[d].id # conns[c].id

\* C29: the keep-alive timer of a stream lives as long as the stream is
\* attached.  A stream has its timer, with no tick yet, from the step that
\* accepts it, a refused request has none, and the step in which a stream
\* detaches cancels the timer and takes the stream out of the observer set.
\* A keep-alive frame is written by a tick of the timer of an attached stream
\* only, one frame a tick, and once a stream has detached nothing is written
\* to it again, neither a keep-alive frame nor an event: its response stays
\* as the detach left it.
C29_KeepAliveTimer ==
    /\ [](\A c \in DOMAIN conns :
             conns[c].keepAlive <=> conns[c].state = "streaming")
    /\ [][/\ \A c \in DOMAIN conns' \ DOMAIN conns :
                /\ conns'[c].ticks = 0
                /\ keepAlives(conns'[c].sent) = <<>>
          /\ \A c \in DOMAIN conns :
                /\ Detaches(c)
                      => /\ ~conns'[c].keepAlive
                         /\ c \notin session'[conns[c].id].listeners
                         /\ conns'[c].sent = conns[c].sent
                         /\ conns'[c].ticks = conns[c].ticks
                /\ conns[c].state # "streaming" => conns'[c] = conns[c]
                /\ keepAlives(conns'[c].sent) # keepAlives(conns[c].sent)
                      => /\ conns[c].state = "streaming"
                         /\ conns[c].keepAlive
                         /\ conns'[c].ticks = conns[c].ticks + 1
                         /\ conns'[c].sent
                               = Append(conns[c].sent, KeepAliveChunk)
         ]_vars

\* A stream was written a keep-alive frame, then detached, and its session
\* has emitted since: the timer is cancelled and the response holds the one
\* frame and less than the log.
C29_Witness ==
    \E c \in DOMAIN conns :
        /\ conns[c].state = "closed"
        /\ ~conns[c].keepAlive
        /\ conns[c].ticks = 1
        /\ Len(keepAlives(conns[c].sent)) = 1
        /\ conns[c].id \in sessions
        /\ IsPrefix(eventChunks(conns[c].sent),
                    chunksOf(session[conns[c].id].events))
        /\ eventChunks(conns[c].sent) # chunksOf(session[conns[c].id].events)

\* The chunk that opens a terminal event on the wire.
terminalChunk(chunk) ==
    /\ Len(chunk) = 2
    /\ chunk[1] = "event"
    /\ chunk[2] \in {"complete", "error"}

====
